---- MODULE Spec2Model ----
(***************************************************************************)
(* A model of the gosh command interpreter (src/main.go).                  *)
(*                                                                         *)
(* A string is a sequence of one-character strings, so that the scanners   *)
(* of the program (splitByPipes, parseCommand) are modelled rune by rune.  *)
(* The operating system is modelled by: the search path (which program     *)
(* names resolve, which of them cannot be started, which exit with a       *)
(* failure status), the set of existing files, and the table of the        *)
(* processes started so far.                                               *)
(***************************************************************************)
EXTENDS Integers, Sequences, FiniteSets, TLC

VARIABLES
    pc,          \* where the main goroutine is: read, wait, crashed, exited, eof, blocked
    history,     \* var history []string
    aliases,     \* var aliases map[string]string
    env,         \* the process environment read by os.ExpandEnv, set by export
    files,       \* names of the files that exist
    jobs,        \* var jobs map[int]*Job
    jobCounter,  \* var jobCounter
    jobsMutex,   \* var jobsMutex: "free" or the goroutine holding it
    procs,       \* the processes started so far, indexed by pid
    waitq,       \* pids the main goroutine has still to Wait on (foreground)
    waiters,     \* the background waiter goroutines: each the pids it has still to Wait on
    cwd,         \* the working directory
    notice,      \* the last advisory line the signal listener printed
    lastErr,     \* the value execInput returned for the last line
    out,         \* what the last evaluated line printed on standard output
    parsed,      \* the locals of the last evaluation: commands, and what parseCommand made of each
    unguarded    \* whether the job table or counter was ever used without jobsMutex held

vars == <<pc, history, aliases, env, files, jobs, jobCounter, jobsMutex,
          procs, waitq, waiters, cwd, notice, lastErr, out, parsed, unguarded>>

(***************************************************************************)
(* Strings                                                                 *)
(***************************************************************************)

\* unicode.IsSpace restricted to the characters of the model
IsSpace(c) == c \in {" ", "\t"}

RECURSIVE TrimLeft(_)
TrimLeft(s) ==
    IF s # <<>> /\ IsSpace(Head(s)) THEN TrimLeft(Tail(s)) ELSE s

RECURSIVE TrimRight(_)
TrimRight(s) ==
    IF s # <<>> /\ IsSpace(s[Len(s)])
    THEN TrimRight(SubSeq(s, 1, Len(s) - 1))
    ELSE s

\* strings.TrimSpace
TrimSpace(s) == TrimRight(TrimLeft(s))

\* strings.HasPrefix
HasPrefix(s, p) == Len(s) >= Len(p) /\ SubSeq(s, 1, Len(p)) = p

\* strings.HasSuffix
HasSuffix(s, p) == Len(s) >= Len(p) /\ SubSeq(s, Len(s) - Len(p) + 1, Len(s)) = p

\* strings.TrimPrefix
TrimPrefix(s, p) == IF HasPrefix(s, p) THEN SubSeq(s, Len(p) + 1, Len(s)) ELSE s

\* strings.TrimSuffix
TrimSuffix(s, p) == IF HasSuffix(s, p) THEN SubSeq(s, 1, Len(s) - Len(p)) ELSE s

\* strings.Join
RECURSIVE Join(_, _)
Join(ss, sep) ==
    IF ss = <<>> THEN <<>>
    ELSE IF Len(ss) = 1 THEN ss[1]
    ELSE ss[1] \o sep \o Join(Tail(ss), sep)

\* strings.Fields: the maximal runs of non-space characters
RECURSIVE FieldsScan(_, _, _)
FieldsScan(s, cur, acc) ==
    IF s = <<>> THEN (IF cur # <<>> THEN Append(acc, cur) ELSE acc)
    ELSE IF IsSpace(Head(s))
         THEN FieldsScan(Tail(s), <<>>, IF cur # <<>> THEN Append(acc, cur) ELSE acc)
         ELSE FieldsScan(Tail(s), Append(cur, Head(s)), acc)

Fields(s) == FieldsScan(s, <<>>, <<>>)

Digits == <<"0", "1", "2", "3", "4", "5", "6", "7", "8", "9">>

IsDigit(c) == \E d \in 1..10 : Digits[d] = c

DigitVal(c) == (CHOOSE d \in 1..10 : Digits[d] = c) - 1

RECURSIVE DecVal(_, _)
DecVal(s, acc) == IF s = <<>> THEN acc ELSE DecVal(Tail(s), 10 * acc + DigitVal(Head(s)))

\* strconv.Atoi: an optional sign followed by at least one digit, all digits
AtoiBody(s) == IF s # <<>> /\ Head(s) \in {"+", "-"} THEN Tail(s) ELSE s

AtoiOk(s) == AtoiBody(s) # <<>> /\ \A k \in 1..Len(AtoiBody(s)) : IsDigit(AtoiBody(s)[k])

Atoi(s) == IF s # <<>> /\ Head(s) = "-" THEN 0 - DecVal(AtoiBody(s), 0) ELSE DecVal(AtoiBody(s), 0)

\* the characters of a shell variable name (os.Expand, isAlphaNum)
IsAlphaNum(c) ==
    \/ IsDigit(c)
    \/ c \in {"_", "a", "b", "c", "d", "e", "f", "g", "h", "i", "j", "k", "l", "m",
              "n", "o", "p", "q", "r", "s", "t", "u", "v", "w", "x", "y", "z",
              "A", "B", "H", "V", "X"}

RECURSIVE NameLen(_)
NameLen(s) == IF s # <<>> /\ IsAlphaNum(Head(s)) THEN 1 + NameLen(Tail(s)) ELSE 0

\* the one-character names of os.Expand (isShellSpecialVar)
IsShellSpecialVar(c) == c \in {"*", "#", "$", "@", "!", "?", "-"} \/ IsDigit(c)

\* the position of the first closing brace of s from i on, 0 when there is none
RECURSIVE BraceEnd(_, _)
BraceEnd(s, i) ==
    IF i > Len(s) THEN 0 ELSE IF s[i] = "}" THEN i ELSE BraceEnd(s, i + 1)

\* getShellName of os.Expand on the text after a $: the name and the number
\* of characters it takes; s is not empty
GetShellName(s) ==
    IF s[1] = "{"
    THEN IF Len(s) > 2 /\ IsShellSpecialVar(s[2]) /\ s[3] = "}"
         THEN [name |-> <<s[2]>>, w |-> 3]
         ELSE LET j == BraceEnd(s, 2) IN
              IF j = 0 THEN [name |-> <<>>, w |-> 1]
              ELSE IF j = 2 THEN [name |-> <<>>, w |-> 2]
              ELSE [name |-> SubSeq(s, 2, j - 1), w |-> j]
    ELSE IF IsShellSpecialVar(s[1]) THEN [name |-> <<s[1]>>, w |-> 1]
    ELSE [name |-> SubSeq(s, 1, NameLen(s)), w |-> NameLen(s)]

\* os.ExpandEnv over `e`: $NAME and ${NAME} are replaced by the value of NAME,
\* by nothing when NAME is unset; a $ that no name follows is kept, a brace
\* without a name is dropped
RECURSIVE ExpandEnv(_, _)
ExpandEnv(s, e) ==
    IF s = <<>> THEN <<>>
    ELSE IF Head(s) = "$" /\ Len(s) > 1
         THEN LET g == GetShellName(Tail(s)) IN
              (IF g.name = <<>> /\ g.w > 0 THEN <<>>
               ELSE IF g.name = <<>> THEN <<"$">>
               ELSE IF g.name \in DOMAIN e THEN e[g.name] ELSE <<>>)
              \o ExpandEnv(SubSeq(s, 2 + g.w, Len(s)), e)
         ELSE <<Head(s)>> \o ExpandEnv(Tail(s), e)

(***************************************************************************)
(* Scanners                                                                *)
(***************************************************************************)

IsQuote(r) == r \in {"\"", "'"}

\* the loop of splitByPipes from rune i on, and its final flush
RECURSIVE SplitScan(_, _, _, _, _, _)
SplitScan(input, i, commands, current, inQuote, quoteChar) ==
    IF i > Len(input)
    THEN IF Len(current) > 0 THEN Append(commands, TrimSpace(current)) ELSE commands
    ELSE LET r == input[i] IN
         IF IsQuote(r)
         THEN IF inQuote /\ r = quoteChar
              THEN SplitScan(input, i + 1, commands, Append(current, r), FALSE, quoteChar)
              ELSE IF ~inQuote
                   THEN SplitScan(input, i + 1, commands, Append(current, r), TRUE, r)
                   ELSE SplitScan(input, i + 1, commands, Append(current, r), inQuote, quoteChar)
         ELSE IF r = "|" /\ ~inQuote
              THEN SplitScan(input, i + 1, Append(commands, TrimSpace(current)), <<>>,
                             inQuote, quoteChar)
              ELSE SplitScan(input, i + 1, commands, Append(current, r), inQuote, quoteChar)

splitByPipes(input) == SplitScan(input, 1, <<>>, <<>>, FALSE, "")

\* for i < len(runes) && runes[i] == ' ' { i++ }
RECURSIVE SkipSpaces(_, _)
SkipSpaces(runes, i) ==
    IF i <= Len(runes) /\ runes[i] = " " THEN SkipSpaces(runes, i + 1) ELSE i

\* for i < len(runes) && runes[i] != ' ' { current.WriteRune(runes[i]); i++ }
RECURSIVE SkipWord(_, _)
SkipWord(runes, i) ==
    IF i <= Len(runes) /\ runes[i] # " " THEN SkipWord(runes, i + 1) ELSE i

\* if current.Len() > 0 { args = append(args, os.ExpandEnv(current.String())) }
Flush(args, current, e) ==
    IF Len(current) > 0 THEN Append(args, ExpandEnv(current, e)) ELSE args

\* the loop of parseCommand from rune i on, and its final flush; st holds the
\* locals args, current, inputFile, outputFile, appendMode, inQuote, quoteChar
RECURSIVE ParseScan(_, _, _, _)
ParseScan(runes, i, st, e) ==
    IF i > Len(runes)
    THEN [args       |-> Flush(st.args, st.current, e),
          inputFile  |-> st.inputFile,
          outputFile |-> st.outputFile,
          appendMode |-> st.appendMode]
    ELSE LET r == runes[i] IN
         IF IsQuote(r)
         THEN IF st.inQuote
              THEN IF r = st.quoteChar
                   THEN ParseScan(runes, i + 1, [st EXCEPT !.inQuote = FALSE, !.quoteChar = ""], e)
                   ELSE ParseScan(runes, i + 1, [st EXCEPT !.current = Append(@, r)], e)
              ELSE ParseScan(runes, i + 1, [st EXCEPT !.inQuote = TRUE, !.quoteChar = r], e)
         ELSE IF r = "<" /\ ~st.inQuote
         THEN LET from == SkipSpaces(runes, i + 1)
                  to   == SkipWord(runes, from)
              IN  ParseScan(runes, to,
                            [st EXCEPT !.args = Flush(st.args, st.current, e),
                                       !.current = <<>>,
                                       !.inputFile = SubSeq(runes, from, to - 1)], e)
         ELSE IF r = ">" /\ ~st.inQuote
         THEN LET app  == i + 1 <= Len(runes) /\ runes[i + 1] = ">"
                  from == SkipSpaces(runes, IF app THEN i + 2 ELSE i + 1)
                  to   == SkipWord(runes, from)
              IN  ParseScan(runes, to,
                            [st EXCEPT !.args = Flush(st.args, st.current, e),
                                       !.current = <<>>,
                                       !.appendMode = (@ \/ app),
                                       !.outputFile = SubSeq(runes, from, to - 1)], e)
         ELSE IF r = " " /\ ~st.inQuote
         THEN ParseScan(runes, i + 1,
                        [st EXCEPT !.args = Flush(st.args, st.current, e), !.current = <<>>], e)
         ELSE ParseScan(runes, i + 1, [st EXCEPT !.current = Append(@, r)], e)

parseCommand(cmdStr, e) ==
    ParseScan(cmdStr, 1,
              [args |-> <<>>, current |-> <<>>, inputFile |-> <<>>, outputFile |-> <<>>,
               appendMode |-> FALSE, inQuote |-> FALSE, quoteChar |-> ""], e)

(***************************************************************************)
(* The operating system                                                    *)
(***************************************************************************)

\* program names exec.LookPath resolves: a exits with status 0, f exits with a
\* failure status, n is found but cannot be started (cmd.Start fails)
OnPath == {<<"a">>, <<"f">>, <<"n">>}

CannotStart == {<<"n">>}

ExitsNonZero == {<<"f">>}

\* files that cannot be created or opened for writing
Unwritable == {<<"r">>}

\* the directories os.Chdir accepts
Dirs == {<<"/">>, <<"/", "h">>}

\* mutant: the result of the lookup is not checked
LookPathUnchecked(name) == TRUE

LookPath(name) == name \in OnPath

\* error values; Nil is Go's nil error
Err(kind, arg) == [kind |-> kind, arg |-> arg]

Nil == Err("nil", <<>>)

\* what a command's Stdin or Stdout is bound to: nothing yet (nil), a file, a
\* pipe (named by the position of the command writing to it) or the
\* interpreter's own stream
NilStream == [kind |-> "nil", file |-> <<>>, pipe |-> 0]

StdStream == [kind |-> "std", file |-> <<>>, pipe |-> 0]

FileStream(name) == [kind |-> "file", file |-> name, pipe |-> 0]

PipeStream(k) == [kind |-> "pipe", file |-> <<>>, pipe |-> k]

\* os.Open
OpenOk(name, fs) == name \in DOMAIN fs

\* os.Create, os.OpenFile(O_APPEND|O_CREATE|O_WRONLY)
CreateOk(name) == name \notin Unwritable

\* mutant: the file is never truncated
AfterOpenWriteKeep(name, appendMode, fs) ==
    IF name \in DOMAIN fs THEN fs ELSE (name :> <<>>) @@ fs

\* the files after opening `name` for writing: os.Create truncates, O_APPEND keeps
AfterOpenWrite(name, appendMode, fs) ==
    IF appendMode /\ name \in DOMAIN fs THEN fs ELSE (name :> <<>>) @@ fs

(***************************************************************************)
(* execPipeline                                                            *)
(***************************************************************************)

\* which stage may take the input redirection, which the output redirection
\* mutant: the input redirection is taken from the last stage
TakesInputLast(i, n) == i = n

TakesInput(i, n) == i = 1

TakesOutput(i, n) == i = n

\* the first loop of execPipeline from stage i on (1-based): parse, skip an
\* empty stage, resolve, open the redirections
RECURSIVE BuildCmds(_, _, _, _, _)
BuildCmds(commands, i, cmds, fs, e) ==
    IF i > Len(commands) THEN [err |-> Nil, cmds |-> cmds, files |-> fs]
    ELSE LET p == parseCommand(commands[i], e) IN
         IF Len(p.args) = 0 THEN BuildCmds(commands, i + 1, cmds, fs, e)
         ELSE IF ~LookPath(p.args[1])
         THEN [err |-> Err("command not found", p.args[1]), cmds |-> cmds, files |-> fs]
         ELSE LET wantIn  == TakesInput(i, Len(commands)) /\ p.inputFile # <<>>
                  wantOut == TakesOutput(i, Len(commands)) /\ p.outputFile # <<>>
              IN  IF wantIn /\ ~OpenOk(p.inputFile, fs)
                  THEN [err |-> Err("open", p.inputFile), cmds |-> cmds, files |-> fs]
                  ELSE IF wantOut /\ ~CreateOk(p.outputFile)
                  THEN [err |-> Err("open", p.outputFile), cmds |-> cmds, files |-> fs]
                  ELSE BuildCmds(commands, i + 1,
                           Append(cmds,
                               [name   |-> p.args[1],
                                args   |-> Tail(p.args),
                                stdin  |-> IF wantIn THEN FileStream(p.inputFile) ELSE NilStream,
                                stdout |-> IF wantOut THEN FileStream(p.outputFile) ELSE NilStream]),
                           IF wantOut THEN AfterOpenWrite(p.outputFile, p.appendMode, fs) ELSE fs,
                           e)

\* mutant: the loop stops one command early
PipeCountShort(n) == n - 2

\* the number of pipes the "Connect pipes" loop makes for n commands
PipeCount(n) == n - 1

\* the "Connect pipes" loop from command i on: StdoutPipe fails when Stdout is set
RECURSIVE ConnectPipes(_, _)
ConnectPipes(cmds, i) ==
    IF i > PipeCount(Len(cmds)) THEN [err |-> Nil, cmds |-> cmds]
    ELSE IF cmds[i].stdout # NilStream
         THEN [err |-> Err("exec: Stdout already set", <<>>), cmds |-> cmds]
         ELSE ConnectPipes([cmds EXCEPT ![i].stdout = PipeStream(i),
                                        ![i + 1].stdin = PipeStream(i)], i + 1)

\* "Set stdout for last command if not redirected", "Set stdin for first command
\* if not redirected"; cmds is not empty
DefaultStreams(cmds) ==
    LET n  == Len(cmds)
        c1 == IF cmds[n].stdout = NilStream THEN [cmds EXCEPT ![n].stdout = StdStream] ELSE cmds
    IN  IF c1[1].stdin = NilStream THEN [c1 EXCEPT ![1].stdin = StdStream] ELSE c1

\* mutant: the loop goes on after a command that cannot be started
RECURSIVE StartAllPastFailure(_, _, _, _, _)
StartAllPastFailure(cmds, i, started, base, background) ==
    IF i > Len(cmds) THEN [err |-> Nil, started |-> started]
    ELSE IF cmds[i].name \in CannotStart
         THEN [err     |-> Err("start", cmds[i].name),
               started |-> StartAllPastFailure(cmds, i + 1, started, base, background).started]
         ELSE StartAllPastFailure(cmds, i + 1,
                                  Append(started,
                                         [name |-> cmds[i].name, stdin |-> cmds[i].stdin,
                                          stdout |-> cmds[i].stdout, st |-> "running",
                                          grp |-> base + 1, pos |-> i, of |-> Len(cmds),
                                          bg |-> background]),
                                  base, background)

\* the "Start all commands" loop from command i on; `started` are the process
\* records of the commands started so far, base the pid before the first
RECURSIVE StartAll(_, _, _, _, _)
StartAll(cmds, i, started, base, background) ==
    IF i > Len(cmds) THEN [err |-> Nil, started |-> started]
    ELSE IF cmds[i].name \in CannotStart
         THEN [err |-> Err("start", cmds[i].name), started |-> started]
         ELSE StartAll(cmds, i + 1,
                       Append(started,
                              [name |-> cmds[i].name, stdin |-> cmds[i].stdin,
                               stdout |-> cmds[i].stdout, st |-> "running",
                               grp |-> base + 1, pos |-> i, of |-> Len(cmds),
                               bg |-> background]),
                       base, background)

(***************************************************************************)
(* Evaluation of a line.  The handlers are functions from the state at     *)
(* their call (a record r of the variables' values) to the state at their  *)
(* return; r.pc says where the main goroutine is then: "read" when the     *)
(* handler has returned r.err to the main loop, "wait" when it is blocked  *)
(* in cmd.Wait, "crashed" after a run-time panic, "exited" after           *)
(* os.Exit, "blocked" when it waits for jobsMutex.                         *)
(***************************************************************************)

Line(kind, id, pid, status, text) ==
    [kind |-> kind, id |-> id, pid |-> pid, status |-> status, text |-> text]

Return(r, err) == [r EXCEPT !.pc = "read", !.err = err]

Panic(r) == [r EXCEPT !.pc = "crashed"]

Remove(f, k) == [x \in DOMAIN f \ {k} |-> f[x]]

Put(f, k, v) == (k :> v) @@ f

Pids(base, n) == [k \in 1..n |-> base + k]

\* the id the next background job is given, and the counter after it
NewJobID(counter) == counter

\* mutant: the counter is not advanced
NextCounterStuck(counter) == counter

NextCounter(counter) == counter + 1

\* jobsMutex.Lock() returns: the main goroutine holds the lock
Lock(r) == [r EXCEPT !.jobsMutex = "main"]

\* mutant: the lock is released on the successful return only
UnlockOnSuccess(r) == IF r.err = Nil THEN [r EXCEPT !.jobsMutex = "free"] ELSE r

\* jobsMutex.Unlock(), deferred in handleJobs and handleFg
Unlock(r) == [r EXCEPT !.jobsMutex = "free"]

\* a use of jobs or jobCounter by the main goroutine: it is noted when the
\* goroutine does not hold jobsMutex
Use(r) == [r EXCEPT !.unguarded = @ \/ r.jobsMutex # "main"]

\* mutant: the counter is advanced before the job is stored under it
RegisterMiskeyed(r, pid, command) ==
    IF r.jobsMutex # "free" THEN [r EXCEPT !.pc = "blocked"]
    ELSE LET held == Use(Lock(r))
             id   == NewJobID(r.jobCounter)
         IN  Unlock([held EXCEPT
                        !.jobs = Put(r.jobs, NextCounter(r.jobCounter),
                                     [ID |-> id, PID |-> pid, Command |-> command,
                                      Stopped |-> FALSE]),
                        !.out = {Line("job", id, pid, "", <<>>)},
                        !.jobCounter = NextCounter(r.jobCounter)])

\* jobsMutex.Lock() ... jobsMutex.Unlock() of execPipeline and execExternal:
\* the job is stored under the counter, announced, and the counter advanced
Register(r, pid, command) ==
    IF r.jobsMutex # "free" THEN [r EXCEPT !.pc = "blocked"]
    ELSE LET held == Use(Lock(r))
             id   == NewJobID(r.jobCounter)
         IN  Unlock([held EXCEPT
                        !.jobs = Put(r.jobs, id,
                                     [ID |-> id, PID |-> pid, Command |-> command,
                                      Stopped |-> FALSE]),
                        !.out = {Line("job", id, pid, "", <<>>)},
                        !.jobCounter = NextCounter(r.jobCounter)])

\* execPipeline after the first loop has built cmds
LaunchPipeline(r, commands, cmds, background) ==
    LET c == ConnectPipes(cmds, 1) IN
    IF c.err # Nil THEN Return(r, c.err)
    ELSE IF Len(c.cmds) = 0 THEN Panic(r)   \* cmds[len(cmds)-1] with no command
    ELSE LET base == Len(r.procs)
             s    == StartAll(DefaultStreams(c.cmds), 1, <<>>, base, background)
             r1   == [r EXCEPT !.procs = r.procs \o s.started]
         IN  IF s.err # Nil THEN Return(r1, s.err)
             ELSE IF background
             THEN LET r2 == Register(r1, base + Len(cmds), Join(commands, <<" ", "|", " ">>))
                  IN  IF r2.pc = "blocked" THEN r2
                      ELSE Return([r2 EXCEPT !.waiters = @ \cup {Pids(base, Len(cmds))}], Nil)
             ELSE [r1 EXCEPT !.pc = "wait", !.waitq = Pids(base, Len(cmds))]

execPipeline(r, commands, background) ==
    LET b  == BuildCmds(commands, 1, <<>>, r.files, r.env)
        r1 == [r EXCEPT !.files = b.files]
    IN  IF b.err # Nil THEN Return(r1, b.err)
        ELSE LaunchPipeline(r1, commands, b.cmds, background)

(***************************************************************************)
(* execExternal                                                            *)
(***************************************************************************)

execExternal(r, args, inputFile, outputFile, appendMode, background) ==
    IF ~LookPath(args[1]) THEN Return(r, Err("command not found", args[1]))
    ELSE IF inputFile # <<>> /\ ~OpenOk(inputFile, r.files)
    THEN Return(r, Err("open", inputFile))
    ELSE IF outputFile # <<>> /\ ~CreateOk(outputFile)
    THEN Return(r, Err("open", outputFile))
    ELSE LET r1   == IF outputFile # <<>>
                     THEN [r EXCEPT !.files = AfterOpenWrite(outputFile, appendMode, r.files)]
                     ELSE r
             base == Len(r.procs)
             cmd  == [name   |-> args[1], args |-> Tail(args),
                      stdin  |-> IF inputFile # <<>> THEN FileStream(inputFile) ELSE StdStream,
                      stdout |-> IF outputFile # <<>> THEN FileStream(outputFile) ELSE StdStream]
             s    == StartAll(<<cmd>>, 1, <<>>, base, background)
             r2   == [r1 EXCEPT !.procs = r.procs \o s.started]
         IN  IF s.err # Nil THEN Return(r2, s.err)
             ELSE IF background
             THEN LET r3 == Register(r2, base + 1, Join(args, <<" ">>))
                  IN  IF r3.pc = "blocked" THEN r3
                      ELSE Return([r3 EXCEPT !.waiters = @ \cup {Pids(base, 1)}], Nil)
             ELSE [r2 EXCEPT !.pc = "wait", !.waitq = Pids(base, 1)]

(***************************************************************************)
(* Built-in commands                                                       *)
(***************************************************************************)

\* mutant: the smallest key is selected
MinID(js) == CHOOSE m \in DOMAIN js \cup {0} : \A id \in DOMAIN js : m <= id /\ (m = 0 => DOMAIN js = {})

\* the largest key of the job table: maxID := 0; for id := range jobs { ... }
MaxID(js) == CHOOSE m \in DOMAIN js \cup {0} : \A id \in DOMAIN js \cup {0} : id <= m

\* the job `fg` selects; ok is false when args[1] is no number
SelectJob(args, js) ==
    IF Len(args) > 1
    THEN LET a == TrimPrefix(args[2], <<"%">>) IN
         IF AtoiOk(a) THEN [ok |-> TRUE, id |-> Atoi(a)] ELSE [ok |-> FALSE, id |-> 0]
    ELSE [ok |-> TRUE, id |-> MaxID(js)]

\* the job table after `fg` has taken job id
AfterFg(js, id) == Remove(js, id)

handleFg(r, args) ==
    IF r.jobsMutex # "free" THEN [r EXCEPT !.pc = "blocked"]
    ELSE LET held == Use(Lock(r))
             sel  == SelectJob(args, r.jobs)
         IN  IF Cardinality(DOMAIN r.jobs) = 0
             THEN Unlock(Return(held, Err("fg: no jobs", <<>>)))
             ELSE IF ~sel.ok
             THEN Unlock(Return(held, Err("fg: invalid job id", args[2])))
             ELSE IF sel.id \notin DOMAIN r.jobs
             THEN Unlock(Return(held, Err("fg: job not found", <<>>)))
             ELSE Unlock(Return([held EXCEPT
                                    !.out = {Line("fg", 0, 0, "", r.jobs[sel.id].Command)},
                                    !.jobs = AfterFg(r.jobs, sel.id)],
                                Nil))

\* mutant: bg reports success
handleBgSilent(r, args) == Return(r, Nil)

handleBg(r, args) == Return(r, Err("bg: not fully implemented", <<>>))

\* mutant: the table is listed without the lock
handleJobsUnlocked(r) ==
    Return([Use(r) EXCEPT !.out =
               {Line("jobs", id, 0,
                     IF r.jobs[id].Stopped THEN "Stopped" ELSE "Running",
                     r.jobs[id].Command) : id \in DOMAIN r.jobs}],
           Nil)

handleJobs(r) ==
    IF r.jobsMutex # "free" THEN [r EXCEPT !.pc = "blocked"]
    ELSE LET held == Use(Lock(r)) IN
         Unlock(Return([held EXCEPT !.out =
                           {Line("jobs", id, 0,
                                 IF r.jobs[id].Stopped THEN "Stopped" ELSE "Running",
                                 r.jobs[id].Command) : id \in DOMAIN r.jobs}],
                       Nil))

\* writeToFile: content and a newline are written to the file opened by mode
writeToFile(r, content, filename, appendMode) ==
    IF ~CreateOk(filename) THEN Return(r, Err("open", filename))
    ELSE LET fs == AfterOpenWrite(filename, appendMode, r.files) IN
         Return([r EXCEPT !.files = [fs EXCEPT ![filename] = Append(@, content)]], Nil)

handleEcho(r, args, outputFile, appendMode) ==
    LET output == Join(Tail(args), <<" ">>) IN
    IF outputFile # <<>> THEN writeToFile(r, output, outputFile, appendMode)
    ELSE Return([r EXCEPT !.out = {Line("echo", 0, 0, "", output)}], Nil)

handleHistory(r, args) ==
    LET len == Len(r.history) IN
    IF Len(args) > 1 /\ ~AtoiOk(args[2])
    THEN Return(r, Err("history: invalid number", args[2]))
    ELSE LET n     == IF Len(args) > 1 THEN Atoi(args[2]) ELSE len
             count == IF n < len THEN n ELSE len
             start == IF len - count < 0 THEN 0 ELSE len - count
         IN  Return([r EXCEPT !.out = {Line("history", i, 0, "", r.history[i]) :
                                          i \in (start + 1)..len}], Nil)

\* strings.SplitN(arg, "=", 2): the position of the first "=", 0 when there is none
EqPos(arg) ==
    IF \E k \in 1..Len(arg) : arg[k] = "="
    THEN CHOOSE k \in 1..Len(arg) : arg[k] = "=" /\ \A j \in 1..(k - 1) : arg[j] # "="
    ELSE 0

\* strings.Trim(s, "'\"")
RECURSIVE TrimQuotes(_)
TrimQuotes(s) ==
    IF s # <<>> /\ IsQuote(Head(s)) THEN TrimQuotes(Tail(s))
    ELSE IF s # <<>> /\ IsQuote(s[Len(s)]) THEN TrimQuotes(SubSeq(s, 1, Len(s) - 1))
    ELSE s

\* the loop of handleAlias from argument i on
RECURSIVE AliasLoop(_, _, _)
AliasLoop(r, args, i) ==
    IF i > Len(args) THEN Return(r, Nil)
    ELSE LET k == EqPos(args[i]) IN
         IF k = 0 THEN Return(r, Err("alias: invalid format", args[i]))
         ELSE AliasLoop([r EXCEPT !.aliases =
                            Put(r.aliases, SubSeq(args[i], 1, k - 1),
                                TrimQuotes(SubSeq(args[i], k + 1, Len(args[i]))))],
                        args, i + 1)

handleAlias(r, args) ==
    IF Len(args) = 1
    THEN Return([r EXCEPT !.out = {Line("alias", 0, 0, "", name \o <<"=">> \o r.aliases[name]) :
                                      name \in DOMAIN r.aliases}], Nil)
    ELSE AliasLoop(r, args, 2)

handleUnalias(r, args) ==
    IF Len(args) < 2 THEN Return(r, Err("unalias: usage", <<>>))
    ELSE Return([r EXCEPT !.aliases =
                     [name \in DOMAIN r.aliases \ {args[i] : i \in 2..Len(args)} |->
                          r.aliases[name]]], Nil)

\* the loop of handleExport from argument i on; os.Setenv rejects an empty name
RECURSIVE ExportLoop(_, _, _)
ExportLoop(r, args, i) ==
    IF i > Len(args) THEN Return(r, Nil)
    ELSE LET k == EqPos(args[i]) IN
         IF k = 0 THEN Return(r, Err("export: invalid format", args[i]))
         ELSE ExportLoop(IF k = 1 THEN r
                         ELSE [r EXCEPT !.env = Put(r.env, SubSeq(args[i], 1, k - 1),
                                                    SubSeq(args[i], k + 1, Len(args[i])))],
                         args, i + 1)

handleExport(r, args) ==
    IF Len(args) < 2 THEN Return(r, Err("export: usage", <<>>))
    ELSE ExportLoop(r, args, 2)

HOME == <<"H", "O", "M", "E">>

OLDPWD == <<"O", "L", "D", "P", "W", "D">>

\* os.UserHomeDir: $HOME, an error when it is empty
HomeOk(r) == HOME \in DOMAIN r.env /\ r.env[HOME] # <<>>

\* os.Chdir(dir) and, when it succeeds, os.Setenv("OLDPWD", oldPwd); a directory
\* is named by its absolute path
Chdir(r, dir) ==
    IF dir \notin Dirs THEN Return(r, Err("cd", dir))
    ELSE Return([r EXCEPT !.cwd = dir, !.env = Put(r.env, OLDPWD, r.cwd)], Nil)

handleCD(r, args) ==
    IF Len(args) < 2
    THEN IF ~HomeOk(r) THEN Return(r, Err("could not find home directory", <<>>))
         ELSE Chdir(r, r.env[HOME])
    ELSE IF args[2] = <<"-">>
    THEN IF OLDPWD \notin DOMAIN r.env \/ r.env[OLDPWD] = <<>>
         THEN Return(r, Err("cd: OLDPWD not set", <<>>))
         ELSE Chdir([r EXCEPT !.out = {Line("cd", 0, 0, "", r.env[OLDPWD])}], r.env[OLDPWD])
    ELSE IF HasPrefix(args[2], <<"~">>)
    THEN IF ~HomeOk(r) THEN Return(r, Err("could not find home directory", <<>>))
         ELSE Chdir(r, IF Len(args[2]) = 1 THEN r.env[HOME]
                       ELSE r.env[HOME] \o <<"/">> \o TrimPrefix(Tail(args[2]), <<"/">>))
    ELSE Chdir(r, args[2])

handlePwd(r) == Return([r EXCEPT !.out = {Line("pwd", 0, 0, "", r.cwd)}], Nil)

(***************************************************************************)
(* execSingleCommand, execInput                                            *)
(***************************************************************************)

\* mutant: the first word is expanded until it is no alias
RECURSIVE ExpandAliasAgain(_, _)
ExpandAliasAgain(args, al) ==
    IF args # <<>> /\ args[1] \in DOMAIN al
    THEN ExpandAliasAgain(Fields(al[args[1]]) \o Tail(args), al)
    ELSE args

\* "Expand aliases": the words of the alias value, then args[1:]
ExpandAlias(args, al) ==
    IF args[1] \in DOMAIN al THEN Fields(al[args[1]]) \o Tail(args) ELSE args

execSingleCommand(r, cmdStr, background) ==
    LET p == parseCommand(cmdStr, r.env) IN
    IF Len(p.args) = 0 THEN Return(r, Nil)
    ELSE LET args == ExpandAlias(p.args, r.aliases)
             r1   == [r EXCEPT !.parsed.args = args]
         IN
         IF Len(args) = 0 THEN Panic(r)   \* args[0] of an alias without words
         ELSE IF args[1] = <<"c", "d">> THEN handleCD(r1, args)
         ELSE IF args[1] = <<"e", "x", "i", "t">> THEN [r1 EXCEPT !.pc = "exited"]
         ELSE IF args[1] = <<"p", "w", "d">> THEN handlePwd(r1)
         ELSE IF args[1] = <<"e", "x", "p", "o", "r", "t">> THEN handleExport(r1, args)
         ELSE IF args[1] = <<"e", "c", "h", "o">>
              THEN handleEcho(r1, args, p.outputFile, p.appendMode)
         ELSE IF args[1] = <<"h", "i", "s", "t", "o", "r", "y">> THEN handleHistory(r1, args)
         ELSE IF args[1] = <<"a", "l", "i", "a", "s">> THEN handleAlias(r1, args)
         ELSE IF args[1] = <<"u", "n", "a", "l", "i", "a", "s">> THEN handleUnalias(r1, args)
         ELSE IF args[1] = <<"j", "o", "b", "s">> THEN handleJobs(r1)
         ELSE IF args[1] = <<"f", "g">> THEN handleFg(r1, args)
         ELSE IF args[1] = <<"b", "g">> THEN handleBg(r1, args)
         ELSE execExternal(r1, args, p.inputFile, p.outputFile, p.appendMode, background)

\* the commands execInput has split the line into and, for each, the result
\* of the parseCommand call made on it; args is set by execSingleCommand to
\* its args after "Expand aliases"
Parsed(commands, e) ==
    [commands |-> commands,
     stages   |-> [i \in 1..Len(commands) |-> parseCommand(commands[i], e)],
     args     |-> <<>>]

execInput(r, line) ==
    LET input == TrimSpace(line) IN
    IF input = <<>> \/ HasPrefix(input, <<"#">>) THEN Return(r, Nil)
    ELSE LET background == HasSuffix(input, <<"&">>)
             inp        == IF background THEN TrimSpace(TrimSuffix(input, <<"&">>)) ELSE input
             commands   == splitByPipes(inp)
             r1         == [r EXCEPT !.parsed = Parsed(commands, r.env)]
         IN  IF Len(commands) = 1
             THEN execSingleCommand(r1, commands[1], background)
             ELSE execPipeline(r1, commands, background)

(***************************************************************************)
(* The state machine                                                       *)
(***************************************************************************)

\* no line split yet
NoCommands == [commands |-> <<>>, stages |-> <<>>, args |-> <<>>]

NoJobs == [id \in {} |-> [ID |-> 0, PID |-> 0, Command |-> <<>>, Stopped |-> FALSE]]

\* loadAliases
DefaultAliases ==
    (<<"l", "l">> :> <<"l", "s", " ", "-", "l", "a">>) @@
    (<<"l", "a">> :> <<"l", "s", " ", "-", "a">>) @@
    (<<".", ".">> :> <<"c", "d", " ", ".", ".">>) @@
    (<<".", ".", ".">> :> <<"c", "d", " ", ".", ".", "/", ".", ".">>)

\* the state when main enters its loop: no history file, the file e exists
Init ==
    /\ pc = "read"
    /\ history = <<>>
    /\ aliases = DefaultAliases
    /\ env = (HOME :> <<"/", "h">>)
    /\ files = (<<"e">> :> <<>>)
    /\ jobs = NoJobs
    /\ jobCounter = 1
    /\ jobsMutex = "free"
    /\ procs = <<>>
    /\ waitq = <<>>
    /\ waiters = {}
    /\ cwd = <<"/">>
    /\ notice = "none"
    /\ lastErr = Nil
    /\ out = {}
    /\ parsed = NoCommands
    /\ unguarded = FALSE

\* the values of the variables a handler starts from, the line already appended
\* to the history
Current(hist) ==
    [pc |-> "read", err |-> Nil, history |-> hist, aliases |-> aliases, env |-> env,
     files |-> files, jobs |-> jobs, jobCounter |-> jobCounter, jobsMutex |-> jobsMutex,
     procs |-> procs, waitq |-> <<>>, waiters |-> waiters, cwd |-> cwd, out |-> {},
     parsed |-> NoCommands, unguarded |-> unguarded]

\* the history when execInput is called on the line read
HistoryAtEval(hist, input) == IF input # <<>> THEN Append(hist, input) ELSE hist

\* mutant: the line is appended to the history after its evaluation
ReadLineAppendAfter(line) ==
    /\ pc = "read"
    /\ \E r \in {execInput(Current(history), TrimSpace(line))} :
           /\ pc' = r.pc
           /\ history' = HistoryAtEval(r.history, TrimSpace(line))
           /\ aliases' = r.aliases
           /\ env' = r.env
           /\ files' = r.files
           /\ jobs' = r.jobs
           /\ jobCounter' = r.jobCounter
           /\ jobsMutex' = r.jobsMutex
           /\ procs' = r.procs
           /\ waitq' = r.waitq
           /\ waiters' = r.waiters
           /\ cwd' = r.cwd
           /\ lastErr' = r.err
           /\ out' = r.out
           /\ parsed' = r.parsed
           /\ unguarded' = r.unguarded
    /\ UNCHANGED notice

\* one turn of the loop of main up to the return of execInput, or to the point
\* where the evaluation blocks, panics or exits
ReadLine(line) ==
    /\ pc = "read"
    /\ \E r \in {execInput(Current(HistoryAtEval(history, TrimSpace(line))),
                           TrimSpace(line))} :
           /\ pc' = r.pc
           /\ history' = r.history
           /\ aliases' = r.aliases
           /\ env' = r.env
           /\ files' = r.files
           /\ jobs' = r.jobs
           /\ jobCounter' = r.jobCounter
           /\ jobsMutex' = r.jobsMutex
           /\ procs' = r.procs
           /\ waitq' = r.waitq
           /\ waiters' = r.waiters
           /\ cwd' = r.cwd
           /\ lastErr' = r.err
           /\ out' = r.out
           /\ parsed' = r.parsed
           /\ unguarded' = r.unguarded
    /\ UNCHANGED notice

\* saveHistory keeps the last HistoryCap lines
HistoryCap == 1000

HistoryFile(e) == e[HOME] \o <<"/", ".", "g", "o", "s", "h", "_", "h", "i", "s", "t", "o", "r", "y">>

\* saveHistory: nothing without a home directory, else the file is rewritten
saveHistory(fs, hist, e) ==
    IF ~(HOME \in DOMAIN e /\ e[HOME] # <<>>) THEN fs
    ELSE Put(fs, HistoryFile(e),
             IF Len(hist) > HistoryCap
             THEN SubSeq(hist, Len(hist) - HistoryCap + 1, Len(hist))
             ELSE hist)

\* reader.ReadString returns io.EOF: the loop ends and saveHistory writes the file
ReadEOF ==
    /\ pc = "read"
    /\ pc' = "eof"
    /\ files' = saveHistory(files, history, env)
    /\ UNCHANGED <<history, aliases, env, jobs, jobCounter, jobsMutex, procs, waitq,
                   waiters, cwd, notice, lastErr, out, parsed, unguarded>>

\* cmd.Wait() of the main goroutine returns: the process at the head of the
\* queue has exited and is reaped; on a failure status the loop returns the
\* error at once, the commands after it are not waited on
WaitStage ==
    /\ pc = "wait"
    /\ waitq # <<>>
    /\ procs[Head(waitq)].st = "exited"
    /\ LET failed == procs[Head(waitq)].name \in ExitsNonZero IN
       /\ procs' = [procs EXCEPT ![Head(waitq)].st = "reaped"]
       /\ waitq' = IF failed THEN <<>> ELSE Tail(waitq)
       /\ lastErr' = IF failed THEN Err("exit status", procs[Head(waitq)].name) ELSE Nil
       /\ pc' = IF failed \/ Tail(waitq) = <<>> THEN "read" ELSE "wait"
    /\ UNCHANGED <<history, aliases, env, files, jobs, jobCounter, jobsMutex, waiters,
                   cwd, notice, out, parsed, unguarded>>

\* a running process exits
Exit(p) ==
    /\ procs[p].st = "running"
    /\ procs' = [procs EXCEPT ![p].st = "exited"]
    /\ UNCHANGED <<pc, history, aliases, env, files, jobs, jobCounter, jobsMutex, waitq,
                   waiters, cwd, notice, lastErr, out, parsed, unguarded>>

\* mutant: the waiter waits on the first process only
ReapFirstOnly(w) ==
    /\ pc \notin {"crashed", "exited", "eof"}
    /\ w \in waiters
    /\ procs[Head(w)].st = "exited"
    /\ procs' = [procs EXCEPT ![Head(w)].st = "reaped"]
    /\ waiters' = waiters \ {w}
    /\ UNCHANGED <<pc, history, aliases, env, files, jobs, jobCounter, jobsMutex, waitq,
                   cwd, notice, lastErr, out, parsed, unguarded>>

\* mutant: the waiter removes the job when it has reaped its last process
ReapAndForget(w) ==
    /\ pc \notin {"crashed", "exited", "eof"}
    /\ w \in waiters
    /\ procs[Head(w)].st = "exited"
    /\ procs' = [procs EXCEPT ![Head(w)].st = "reaped"]
    /\ waiters' = (waiters \ {w}) \cup (IF Tail(w) = <<>> THEN {} ELSE {Tail(w)})
    /\ jobs' = IF Tail(w) = <<>>
               THEN [id \in {j \in DOMAIN jobs : jobs[j].PID # Head(w)} |-> jobs[id]]
               ELSE jobs
    /\ UNCHANGED <<pc, history, aliases, env, files, jobCounter, jobsMutex, waitq,
                   cwd, notice, lastErr, out, parsed, unguarded>>

\* cmd.Wait() of a background waiter goroutine returns
Reap(w) ==
    /\ pc \notin {"crashed", "exited", "eof"}
    /\ w \in waiters
    /\ procs[Head(w)].st = "exited"
    /\ procs' = [procs EXCEPT ![Head(w)].st = "reaped"]
    /\ waiters' = (waiters \ {w}) \cup (IF Tail(w) = <<>> THEN {} ELSE {Tail(w)})
    /\ UNCHANGED <<pc, history, aliases, env, files, jobs, jobCounter, jobsMutex, waitq,
                   cwd, notice, lastErr, out, parsed, unguarded>>

\* mutant: the stop notification marks every job Stopped
SignalStopsJobs(sig) ==
    /\ pc \notin {"crashed", "exited", "eof"}
    /\ notice' = sig
    /\ jobs' = IF sig = "tstp"
               THEN [id \in DOMAIN jobs |-> [jobs[id] EXCEPT !.Stopped = TRUE]]
               ELSE jobs
    /\ UNCHANGED <<pc, history, aliases, env, files, jobCounter, jobsMutex, procs,
                   waitq, waiters, cwd, lastErr, out, parsed, unguarded>>

\* the goroutine of setupSignalHandlers receives SIGINT or SIGTSTP
Signal(sig) ==
    /\ pc \notin {"crashed", "exited", "eof"}
    /\ notice' = sig
    /\ UNCHANGED <<pc, history, aliases, env, files, jobs, jobCounter, jobsMutex, procs,
                   waitq, waiters, cwd, lastErr, out, parsed, unguarded>>

(***************************************************************************)
(* Sessions.  A session reads lines from a set; the number of lines read   *)
(* (the length of the history) is bounded.                                 *)
(***************************************************************************)

\* the number of non-empty lines read in a job-control session
MaxLines == 3

\* the number of non-empty lines read in a pipeline session
MaxPipeLines == 2

\* the number of non-empty lines read in a redirection session
MaxRedirLines == 2

\* the lines of a job-control session: background launches and built-ins
JobLines ==
    { <<>>,
      <<"a", " ", "&">>,
      <<"a", " ", "|", " ", "a", " ", "&">>,
      <<"j", "o", "b", "s">>,
      <<"f", "g">>,
      <<"f", "g", " ", "1">>,
      <<"f", "g", " ", "%", "2">>,
      <<"f", "g", " ", "z">>,
      <<"b", "g">>,
      <<"b", "g", " ", "%", "1">> }

\* the lines of a pipeline session: stages that fail, do not resolve, cannot be
\* started or are empty
PipeLines ==
    { <<"f", " ", "|", " ", "a">>,
      <<"a", " ", "|", " ", "f", " ", "|", " ", "a">>,
      <<"x", " ", "|", " ", "a">>,
      <<"a", " ", "|", " ", "x", " ", "&">>,
      <<"a", " ", "|", " ", "x", " ", "|", " ", "y">>,
      <<"a", " ", "<", "m", " ", "|", " ", "x">>,
      <<"a", " ", "|", " ", "n">>,
      <<"n", " ", "|", " ", "a", " ", "&">>,
      <<"a", " ", "|", " ", "a", " ", "&">>,
      <<"|", " ", "|">>,
      <<"&">>,
      <<"x">>,
      <<"e", "x", "i", "t">> }

\* the lines of a redirection session
RedirLines ==
    { <<"a", " ", "<", "m">>,
      <<"a", " ", "<", " ", "m", " ", "&">>,
      <<"a", " ", "<", "m", " ", "|", " ", "a">>,
      <<"f", " ", "<", "m", " ", "|", " ", "a", " ", "&">>,
      <<"a", " ", "<", "e", " ", "&">>,
      <<"a", " ", "<", "e", " ", "|", " ", "a", " ", ">", "o">>,
      <<"a", " ", ">", "o", " ", "|", " ", "a", " ", "<", "e">>,
      <<"|", " ", "a", " ", "<", "e", " ", ">", ">", "o">>,
      <<"a", " ", "<", "e", " ", ">", "o", "|", "a", " ", "<", "e", " ", ">", "o", "|",
        "a", " ", "<", "e", " ", ">", "o", " ", "&">>,
      <<"a", " ", ">", "o", " ", "|", " ", "\"", "\"">>,
      <<"a", " ", "<", "e", " ", "|", " ", "n", " ", ">", "o">> }

\* the processes and the background waiters
Background ==
    \/ \E p \in DOMAIN procs : Exit(p)
    \/ \E w \in waiters : Reap(w)

\* a job-control session: no line makes the main goroutine wait on a process
Next ==
    \/ \E line \in JobLines : Len(history) < MaxLines /\ ReadLine(line)
    \/ Background

Spec == Init /\ [][Next]_vars

NextPipe ==
    \/ \E line \in PipeLines : Len(history) < MaxPipeLines /\ ReadLine(line)
    \/ WaitStage
    \/ ReadEOF
    \/ \E sig \in {"int", "tstp"} : Signal(sig)
    \/ Background

SpecPipe == Init /\ [][NextPipe]_vars

NextRedir ==
    \/ \E line \in RedirLines : Len(history) < MaxRedirLines /\ ReadLine(line)
    \/ WaitStage
    \/ Background

SpecRedir == Init /\ [][NextRedir]_vars

(***************************************************************************)
(* Job control                                                             *)
(***************************************************************************)

\* the line evaluated by a step that read a non-empty line
Evaluated(line) == history' # history /\ history'[Len(history')] = line

\* the announcements "[id] pid" a step printed
Announced == IF history' # history THEN {l \in out' : l.kind = "job"} ELSE {}

FgLine == <<"f", "g">>

Fg1Line == <<"f", "g", " ", "1">>

Fg2Line == <<"f", "g", " ", "%", "2">>

FgLines == {FgLine, Fg1Line, Fg2Line}

\* the largest id of a non-empty table
Highest(js) == CHOOSE m \in DOMAIN js : \A id \in DOMAIN js : id <= m

\* the id an fg line asks for
Asked(line, js) ==
    IF line = Fg1Line THEN 1 ELSE IF line = Fg2Line THEN 2 ELSE Highest(js)

\* the command text of a launch line: the line without its "&"
LaunchText(line) == TrimSpace(SubSeq(line, 1, Len(line) - 1))

\* C1: the first background launch is announced with job id 1, and every
\* launch is announced with exactly one id, which is above every id announced
\* before: the id is the value of the job counter, which starts at 1, moves
\* above the id at the launch and is changed by no other step (an fg included)
C1_JobIdsIncrease ==
    /\ jobCounter = 1
    /\ [][/\ Cardinality(Announced) <= 1
          /\ \A l \in Announced : l.id = jobCounter /\ jobCounter' > l.id
          /\ Announced = {} => jobCounter' = jobCounter]_vars

\* a second launch, after fg has removed job 1, has been given id 2
C1_Witness ==
    /\ Len(history) = 3
    /\ history[2] = FgLine
    /\ DOMAIN jobs = {2}
    /\ jobCounter = 3
    /\ \E l \in out : l.kind = "job" /\ l.id = 2

\* C2: a launch announced with id n leaves an entry n that is Running and
\* holds the launched command; `jobs` lists every entry of the table with its
\* state; an entry leaves the table only in the evaluation of an fg line that
\* asks for it, and an entry that stays is not changed
C2_JobListedUntilFg ==
    [][/\ \A l \in Announced :
             /\ l.id \in DOMAIN jobs'
             /\ jobs'[l.id].Stopped = FALSE
             /\ jobs'[l.id].Command = LaunchText(history'[Len(history')])
             /\ jobs'[l.id].PID = l.pid
       /\ Evaluated(<<"j", "o", "b", "s">>) =>
             out' = {Line("jobs", id, 0, "Running", jobs[id].Command) : id \in DOMAIN jobs}
       /\ \A id \in DOMAIN jobs :
             IF id \in DOMAIN jobs'
             THEN jobs'[id] = jobs[id]
             ELSE \E line \in FgLines : Evaluated(line) /\ id = Asked(line, jobs)]_vars

\* `jobs` right after the launch of a pipeline lists it as Running, the
\* processes of the job having exited and been reaped
C2_Witness ==
    /\ Len(history) = 2
    /\ history[2] = <<"j", "o", "b", "s">>
    /\ out = {Line("jobs", 1, 0, "Running", <<"a", " ", "|", " ", "a">>)}
    /\ 1 \in DOMAIN jobs
    /\ \A p \in DOMAIN procs : procs[p].st = "reaped"

\* C3: fg without an argument on a non-empty table removes the entry with the
\* highest id, fg with an id of the table removes that entry; every other
\* entry and the job counter are unchanged, and the command text is printed
C3_FgRemovesSelected ==
    [][\A line \in FgLines :
          (Evaluated(line) /\ DOMAIN jobs # {} /\ Asked(line, jobs) \in DOMAIN jobs) =>
             /\ DOMAIN jobs' = DOMAIN jobs \ {Asked(line, jobs)}
             /\ \A id \in DOMAIN jobs' : jobs'[id] = jobs[id]
             /\ jobCounter' = jobCounter
             /\ out' = {Line("fg", 0, 0, "", jobs[Asked(line, jobs)].Command)}
             /\ lastErr' = Nil]_vars

\* fg without an argument has removed job 2 of jobs 1 and 2
C3_Witness ==
    /\ Len(history) = 3
    /\ history[3] = FgLine
    /\ DOMAIN jobs = {1}
    /\ jobCounter = 3
    /\ lastErr = Nil

\* C4: fg on an empty table, or for an id that is not in the table, returns an
\* error to the main loop, which is back at reading a line; the job table and
\* the job counter are unchanged and the lock is free
C4_FgFails ==
    [][\A line \in FgLines :
          (Evaluated(line) /\ (DOMAIN jobs = {} \/ Asked(line, jobs) \notin DOMAIN jobs)) =>
             /\ lastErr'.kind \in {"fg: no jobs", "fg: job not found"}
             /\ (lastErr'.kind = "fg: no jobs") = (DOMAIN jobs = {})
             /\ jobs' = jobs
             /\ jobCounter' = jobCounter
             /\ jobsMutex' = "free"
             /\ pc' = "read"]_vars

\* fg for an id that is not in a non-empty table has failed, and a further
\* line has been evaluated after a failed fg on the empty table
C4_Witness ==
    /\ Len(history) = 3
    /\ history[1] = FgLine
    /\ history[3] = Fg2Line
    /\ lastErr.kind = "fg: job not found"
    /\ DOMAIN jobs = {1}
    /\ pc = "read"

\* C5: bg, with or without an argument, returns an error and changes neither
\* the job table nor the job counter
C5_BgFails ==
    [][\A line \in {<<"b", "g">>, <<"b", "g", " ", "%", "1">>} :
          Evaluated(line) =>
             /\ lastErr'.kind = "bg: not fully implemented"
             /\ jobs' = jobs
             /\ jobCounter' = jobCounter
             /\ pc' = "read"]_vars

\* bg %1 has failed with job 1 in the table
C5_Witness ==
    /\ history # <<>>
    /\ history[Len(history)] = <<"b", "g", " ", "%", "1">>
    /\ lastErr.kind = "bg: not fully implemented"
    /\ 1 \in DOMAIN jobs
    /\ jobs[1].Stopped = FALSE

(***************************************************************************)
(* Evaluation and pipelines                                                *)
(***************************************************************************)

\* C6: the evaluation of a line that is not `exit` returns to the main loop:
\* the interpreter is never ended by a failure of an evaluation
C6_EvaluationReturns == pc # "crashed"

\* the processes of foreground launches all of whose commands were started
FullyStarted(p) ==
    /\ ~procs[p].bg
    /\ \E q \in DOMAIN procs : procs[q].grp = procs[p].grp /\ procs[q].pos = procs[q].of

\* C7: when a foreground pipeline has returned to the main loop, every one of
\* its processes has been waited on
C7_AllStagesWaited ==
    pc = "read" => \A p \in DOMAIN procs : FullyStarted(p) => procs[p].st = "reaped"

MissingFile == <<"m">>

\* the lines whose first stage resolves and reads from the file m
MissingInputLines ==
    { <<"a", " ", "<", "m">>,
      <<"a", " ", "<", " ", "m", " ", "&">>,
      <<"a", " ", "<", "m", " ", "|", " ", "a">>,
      <<"f", " ", "<", "m", " ", "|", " ", "a", " ", "&">> }

\* C8: a launch whose first stage resolves and redirects its input from a
\* file that does not exist returns the error of the open, and has started no
\* process and registered no job
C8_MissingInputFails ==
    [][\A line \in MissingInputLines :
          (Evaluated(line) /\ MissingFile \notin DOMAIN files) =>
             /\ lastErr' = Err("open", MissingFile)
             /\ procs' = procs
             /\ jobs' = jobs
             /\ jobCounter' = jobCounter
             /\ waiters' = waiters
             /\ pc' = "read"]_vars

\* a background pipeline reading from the missing file has failed with the
\* error of the open
C8_Witness ==
    /\ history = << <<"f", " ", "<", "m", " ", "|", " ", "a", " ", "&">> >>
    /\ lastErr = Err("open", MissingFile)
    /\ procs = <<>>
    /\ jobs = NoJobs

MissingInputUnresolved == <<"a", " ", "<", "m", " ", "|", " ", "x">>

\* the pipelines with a stage that does not resolve: the first, the last, a
\* middle one followed by another, and the last after a missing input file
UnresolvedLines ==
    { <<"x", " ", "|", " ", "a">>,
      <<"a", " ", "|", " ", "x", " ", "&">>,
      <<"a", " ", "|", " ", "x", " ", "|", " ", "y">>,
      MissingInputUnresolved }

\* C9 as claimed: a pipeline with a stage that does not resolve returns the
\* command-not-found error and has started no process and registered no job
C9_Original ==
    [][\A line \in UnresolvedLines :
          Evaluated(line) =>
             /\ lastErr'.kind = "command not found"
             /\ procs' = procs
             /\ jobs' = jobs]_vars

\* C9, amended: a pipeline with a stage that does not resolve returns an
\* error, has started no process and registered no job; the error is the
\* command-not-found error of the first stage that does not resolve, unless
\* the first stage resolves and its input file cannot be opened: then it is
\* the error of that open
C9_UnresolvedStartsNothing ==
    [][\A line \in UnresolvedLines :
          Evaluated(line) =>
             /\ lastErr' = IF line = MissingInputUnresolved /\ MissingFile \notin DOMAIN files
                           THEN Err("open", MissingFile)
                           ELSE Err("command not found", <<"x">>)
             /\ procs' = procs
             /\ jobs' = jobs
             /\ jobCounter' = jobCounter
             /\ waiters' = waiters
             /\ pc' = "read"]_vars

\* a pipeline whose middle stage does not resolve has failed with no process
\* started
C9_Witness ==
    /\ history = << <<"a", " ", "|", " ", "x", " ", "|", " ", "y">> >>
    /\ lastErr = Err("command not found", <<"x">>)
    /\ procs = <<>>
    /\ jobs = NoJobs

\* C10: of the processes of a launch, only the first reads from a file or the
\* interpreter's input and only the last writes to a file or the interpreter's
\* output; every other stream is the pipe between the process and its neighbour
C10_PipeWiring ==
    \A p \in DOMAIN procs :
        /\ procs[p].stdin.kind \in {"file", "std", "pipe"}
        /\ procs[p].stdout.kind \in {"file", "std", "pipe"}
        /\ procs[p].pos = 1 => procs[p].stdin.kind \in {"file", "std"}
        /\ procs[p].pos = procs[p].of => procs[p].stdout.kind \in {"file", "std"}
        /\ procs[p].pos > 1 =>
              /\ procs[p].stdin = PipeStream(procs[p].pos - 1)
              /\ procs[p - 1].grp = procs[p].grp
              /\ procs[p - 1].pos = procs[p].pos - 1
              /\ procs[p - 1].stdout = procs[p].stdin
        /\ procs[p].pos < procs[p].of => procs[p].stdout = PipeStream(procs[p].pos)

\* a pipeline of three processes, every stage written with both redirections,
\* is running: the first reads the file, the last writes the file
C10_Witness ==
    /\ Len(procs) = 3
    /\ procs[3].of = 3
    /\ procs[1].stdin = FileStream(<<"e">>)
    /\ procs[1].stdout = PipeStream(1)
    /\ procs[2].stdin = PipeStream(1)
    /\ procs[2].stdout = PipeStream(2)
    /\ procs[3].stdin = PipeStream(2)
    /\ procs[3].stdout = FileStream(<<"o">>)

(***************************************************************************)
(* Scanning.  A session that reads one line, written over the characters   *)
(* the scanners tell apart; no word of these lines is the name of a        *)
(* program or of a built-in other than echo.                               *)
(***************************************************************************)

\* the longest line enumerated
MaxParseLen == 5

ParseRunes == {"b", " ", "|", "\"", "<", ">", "$"}

\* the lines of at most n characters
LinesUpTo(n) == UNION {[1..k -> ParseRunes] : k \in 0..n}

EchoQuotedBar == <<"e", "c", "h", "o", " ", "\"", "a", "|", "b", "\"">>

ThreeStages ==
    <<"c", "1", " ", "|", " ", "c", "2", " ", "|", " ", "c", "3">>

\* echo > "a <b": the name of the file is quoted and holds a space and a <
QuotedTarget == <<"e", "c", "h", "o", " ", ">", " ", "\"", "a", " ", "<", "b", "\"">>

\* echo "a|b", cmd1 | cmd2 | cmd3 with the names c1 c2 c3, and lines that
\* mix the two kinds of quote
QuotedLines ==
    { EchoQuotedBar,
      ThreeStages,
      QuotedTarget,
      <<"b", " ", "'", "<", "\"", "|", "'", " ", "|", " ", "b", "\"", ">", "\"">>,
      <<"b", "'", " ", "|", " ", "'", "b", " ", "|", "b", " ", "\"", "'", "\"">> }

ParseLines == LinesUpTo(MaxParseLen) \cup QuotedLines

NextParse == \E line \in ParseLines : history = <<>> /\ ReadLine(line)

SpecParse == Init /\ [][NextParse]_vars

(***************************************************************************)
(* C11                                                                     *)
(***************************************************************************)

\* the quote that is open after the first i characters of s, "" when none is
RECURSIVE QuoteAt(_, _)
QuoteAt(s, i) ==
    IF i = 0 THEN ""
    ELSE LET q == QuoteAt(s, i - 1) IN
         IF q = "" THEN (IF IsQuote(s[i]) THEN s[i] ELSE "")
         ELSE IF s[i] = q THEN "" ELSE q

\* character i of s opens or closes a quotation
Delimits(s, i) ==
    \/ QuoteAt(s, i - 1) = "" /\ IsQuote(s[i])
    \/ QuoteAt(s, i - 1) # "" /\ s[i] = QuoteAt(s, i - 1)

\* character i of s stands outside every quotation
Unquoted(s, i) == QuoteAt(s, i - 1) = "" /\ ~IsQuote(s[i])

Balanced(s) == QuoteAt(s, Len(s)) = ""

Positions(s) == [i \in 1..Len(s) |-> i]

\* the positions of the unquoted bars of s, in order
Bars(s) == SelectSeq(Positions(s), LAMBDA i : s[i] = "|" /\ Unquoted(s, i))

\* the text of s between its unquoted bars, trimmed
Segments(s) ==
    LET cut == <<0>> \o Bars(s) \o <<Len(s) + 1>> IN
    [j \in 1..(Len(cut) - 1) |-> TrimSpace(SubSeq(s, cut[j] + 1, cut[j + 1] - 1))]

\* the characters of s that are neither delimiters of a quotation nor
\* unquoted spaces
Kept(s) ==
    LET keep == SelectSeq(Positions(s),
                          LAMBDA i : ~Delimits(s, i) /\ ~(s[i] = " " /\ Unquoted(s, i)))
    IN  [j \in 1..Len(keep) |-> s[keep[j]]]

HasUnquoted(s, c) == \E i \in 1..Len(s) : s[i] = c /\ Unquoted(s, i)

\* the line whose evaluation the state shows, without the & at its end
SplitInput ==
    IF HasSuffix(history[1], <<"&">>)
    THEN TrimSpace(TrimSuffix(history[1], <<"&">>))
    ELSE history[1]

\* a line of k non-empty commands between k-1 unquoted bars is split into
\* exactly these k commands, in order
StagesAreSegments ==
    (history # <<>> /\ \A j \in DOMAIN Segments(SplitInput) : Segments(SplitInput)[j] # <<>>)
        => parsed.commands = Segments(SplitInput)

\* in a command whose quotes are balanced, a file name is set by an unquoted
\* < or > only
QuotedStartsNoRedirection ==
    \A j \in DOMAIN parsed.commands :
        Balanced(parsed.commands[j]) =>
            /\ parsed.stages[j].inputFile # <<>> => HasUnquoted(parsed.commands[j], "<")
            /\ parsed.stages[j].outputFile # <<>> => HasUnquoted(parsed.commands[j], ">")

\* in a command whose quotes are balanced and that has no unquoted < or > and
\* no $, the arguments are the command without its quote delimiters and
\* unquoted spaces: every quoted character is kept
QuotedKeptVerbatim ==
    \A j \in DOMAIN parsed.commands :
        LET c == parsed.commands[j] IN
        (/\ Balanced(c)
         /\ ~HasUnquoted(c, "<")
         /\ ~HasUnquoted(c, ">")
         /\ \A i \in 1..Len(c) : c[i] # "$")
            => Join(parsed.stages[j].args, <<>>) = Kept(c)

\* C11: the commands of a line are the texts between its unquoted bars, in
\* order; a bar, < or > inside a balanced pair of quotes splits nothing, starts
\* no redirection and is kept in its argument
C11_UnquotedBarsSplit ==
    /\ StagesAreSegments
    /\ QuotedStartsNoRedirection
    /\ QuotedKeptVerbatim

(***************************************************************************)
(* C12                                                                     *)
(***************************************************************************)

\* the number of lines of a session of echo commands
MaxEchoLines == 3

OutTxt == <<"o", "u", "t", ".", "t", "x", "t">>

Hi == <<"h", "i">>

Bye == <<"b", "y", "e">>

EchoTexts == {Hi, Bye, Hi \o <<" ">> \o Bye}

\* echo X > out.txt or echo X >> out.txt
EchoLine(text, appending) ==
    <<"e", "c", "h", "o", " ">> \o text \o
    (IF appending THEN <<" ", ">", ">", " ">> ELSE <<" ", ">", " ">>) \o OutTxt

EchoLines == {EchoLine(text, appending) : text \in EchoTexts, appending \in BOOLEAN}

NextEcho == \E line \in EchoLines : Len(history) < MaxEchoLines /\ ReadLine(line)

SpecEcho == Init /\ [][NextEcho]_vars

\* what a line of EchoLines writes, and how
WriteOf(line) ==
    CHOOSE w \in EchoTexts \X BOOLEAN : EchoLine(w[1], w[2]) = line

\* the lines written by the commands of hist since the last > among them
RECURSIVE WrittenSince(_)
WrittenSince(hist) ==
    IF hist = <<>> THEN <<>>
    ELSE LET w == WriteOf(hist[Len(hist)]) IN
         IF w[2] THEN Append(WrittenSince(SubSeq(hist, 1, Len(hist) - 1)), w[1])
         ELSE <<w[1]>>

\* C12: after any sequence of echo X > f and echo X >> f the file f holds the
\* lines written since the last >, in order (all of them when there was no >,
\* the first >> creating the file)
C12_FileHoldsLinesSinceTruncate ==
    /\ history = <<>> => OutTxt \notin DOMAIN files
    /\ history # <<>> => OutTxt \in DOMAIN files /\ files[OutTxt] = WrittenSince(history)

\* echo hi > out.txt then echo bye >> out.txt after a first line: the file is
\* hi, bye
C12_Witness ==
    /\ Len(history) = 3
    /\ history[2] = EchoLine(Hi, FALSE)
    /\ history[3] = EchoLine(Bye, TRUE)
    /\ files[OutTxt] = <<Hi, Bye>>

(***************************************************************************)
(* C13                                                                     *)
(***************************************************************************)

\* the number of lines of a session of alias definitions and uses
MaxAliasLines == 3

K == <<"k">>

LL == <<"l", "l">>

AliasCmd == <<"a", "l", "i", "a", "s", " ">>

\* alias k="a ll", alias k=ll, alias k= and alias k=" f  a ": a value of two
\* words the second of which is an alias key, a value that is an alias key, a
\* value without words, a value with spaces around and between its words
AliasDefs ==
    { AliasCmd \o <<"k", "=", "\"", "a", " ", "l", "l", "\"">>,
      AliasCmd \o <<"k", "=", "l", "l">>,
      AliasCmd \o <<"k", "=">>,
      AliasCmd \o <<"k", "=", "\"", " ", "f", " ", " ", "a", " ", "\"">> }

\* the lines that use a name, each with its words: k ll b &, ll k, a k ll &,
\* echo k ll
AliasUses ==
    { [text |-> <<"k", " ", "l", "l", " ", "b", " ", "&">>, words |-> <<K, LL, <<"b">>>>],
      [text |-> <<"l", "l", " ", "k">>, words |-> <<LL, K>>],
      [text |-> <<"a", " ", "k", " ", "l", "l", " ", "&">>, words |-> <<<<"a">>, K, LL>>],
      [text |-> <<"e", "c", "h", "o", " ", "k", " ", "l", "l">>,
       words |-> <<<<"e", "c", "h", "o">>, K, LL>>] }

AliasLines == AliasDefs \cup {u.text : u \in AliasUses}

NextAlias ==
    \/ \E line \in AliasLines : Len(history) < MaxAliasLines /\ ReadLine(line)
    \/ Background

SpecAlias == Init /\ [][NextAlias]_vars

\* the words of the alias values of these sessions
WordsOfValue ==
    (<<"a", " ", "l", "l">> :> <<<<"a">>, LL>>) @@
    (LL :> <<LL>>) @@
    (<<>> :> <<>>) @@
    (<<" ", "f", " ", " ", "a", " ">> :> <<<<"f">>, <<"a">>>>) @@
    (<<"l", "s", " ", "-", "l", "a">> :> <<<<"l", "s">>, <<"-", "l", "a">>>>)

\* the first word replaced by the words of its alias value, if it has one; the
\* other words as they are
FirstWordExpanded(words, al) ==
    IF words[1] \in DOMAIN al
    THEN WordsOfValue[al[words[1]]] \o SubSeq(words, 2, Len(words))
    ELSE words

\* C13: the arguments a single command runs with are its words, the first
\* replaced by the words of its alias value when it is an alias key; the words
\* after the first are kept as they are, alias keys among them too, and the
\* first word of the result is not expanded again
C13_AliasExpandsFirstWordOnce ==
    [][\A u \in AliasUses :
          Evaluated(u.text) => parsed'.args = FirstWordExpanded(u.words, aliases)]_vars

\* after alias k=ll the line k ll b & ran with the arguments ll ll b: the first
\* word was replaced once, and ll was not found as a program
C13_Witness ==
    /\ Len(history) = 2
    /\ K \in DOMAIN aliases
    /\ aliases[K] = LL
    /\ parsed.args = <<LL, LL, <<"b">>>>
    /\ lastErr = Err("command not found", LL)

(***************************************************************************)
(* C14                                                                     *)
(***************************************************************************)

\* C14: no argument that parseCommand returns is the empty string
C14_NoEmptyArgument ==
    \A j \in DOMAIN parsed.stages :
        \A k \in DOMAIN parsed.stages[j].args : parsed.stages[j].args[k] # <<>>

(***************************************************************************)
(* C15                                                                     *)
(***************************************************************************)

\* the number of lines of a session with the history built-in
MaxHistLines == 3

HistoryLine == <<"h", "i", "s", "t", "o", "r", "y">>

\* history, history 1, a foreground command, a foreground pipeline, echo, and
\* the empty line
HistLines ==
    { HistoryLine,
      HistoryLine \o <<" ", "1">>,
      <<"a">>,
      <<"f", " ", "|", " ", "a">>,
      <<"e", "c", "h", "o", " ", "h", "i">>,
      <<>> }

NextHist ==
    \/ \E line \in HistLines : Len(history) < MaxHistLines /\ ReadLine(line)
    \/ WaitStage
    \/ \E p \in DOMAIN procs : Exit(p)

SpecHist == Init /\ [][NextHist]_vars

\* the entries of the history the step printed
Listed == {l \in out' : l.kind = "history"}

\* C15 as stated: the line is in the history only when its evaluation has
\* completed, so the step that appends it leaves no evaluation in progress,
\* and the history its evaluation prints does not list it
C15_Original ==
    [][history' # history =>
          /\ pc' # "wait"
          /\ \A l \in Listed : l.id # Len(history')]_vars

\* C15, amended: a line is appended to the history when the main loop has
\* read it, which is after the evaluation of the line before it has completed
\* and before its own evaluation: the history grows by one line at its end,
\* only in a step of the main loop at its read, and the evaluation of history
\* and of history 1 lists the line itself, with its number, as the last entry
C15_HistoryAppendedBeforeEvaluation ==
    [][/\ history' # history =>
             /\ pc = "read"
             /\ Len(history') = Len(history) + 1
             /\ SubSeq(history', 1, Len(history)) = history
       /\ \A line \in {HistoryLine, HistoryLine \o <<" ", "1">>} :
             Evaluated(line) =>
                 /\ Line("history", Len(history'), 0, "", line) \in out'
                 /\ \A l \in Listed : l.id <= Len(history')]_vars

\* history was read as the second line and listed itself with the number 2
C15_Witness ==
    /\ history = <<<<"a">>, HistoryLine>>
    /\ pc = "read"
    /\ Line("history", 1, 0, "", <<"a">>) \in out
    /\ Line("history", 2, 0, "", HistoryLine) \in out

(***************************************************************************)
(* C16                                                                     *)
(***************************************************************************)

\* the number of lines of a session with interrupt and stop notifications
MaxSigLines == 2

\* a &, a | a &, jobs, fg and bg
SigLines ==
    { <<"a", " ", "&">>,
      <<"a", " ", "|", " ", "a", " ", "&">>,
      <<"j", "o", "b", "s">>,
      <<"f", "g">>,
      <<"b", "g">> }

NextSig ==
    \/ \E line \in SigLines : Len(history) < MaxSigLines /\ ReadLine(line)
    \/ \E sig \in {"int", "tstp"} : Signal(sig)
    \/ Background

SpecSig == Init /\ [][NextSig]_vars

\* C16: no job of the table is ever Stopped, and jobs lists every job as
\* Running; a notification handled by the signal listener changes neither the
\* job table nor the job counter, and the interpreter goes on as it was
C16_NoJobIsStopped ==
    /\ [](/\ \A id \in DOMAIN jobs : ~jobs[id].Stopped
          /\ \A l \in out : l.kind = "jobs" => l.status = "Running")
    /\ [][notice' # notice =>
             /\ jobs' = jobs
             /\ jobCounter' = jobCounter
             /\ pc' = pc]_vars

\* after a & the stop notification was handled while the process was running,
\* and jobs lists the job as Running
C16_Witness ==
    /\ notice = "tstp"
    /\ Len(history) = 2
    /\ 1 \in DOMAIN jobs
    /\ procs[1].st = "running"
    /\ out = {Line("jobs", 1, 0, "Running", <<"a">>)}

(***************************************************************************)
(* C17                                                                     *)
(***************************************************************************)

\* the processes of the launch that registered job id
JobProcs(id) == {p \in DOMAIN procs : procs[p].grp = procs[jobs[id].PID].grp}

\* every process of job id has exited and been reaped
Finished(id) == \A p \in JobProcs(id) : procs[p].st = "reaped"

\* a background waiter has reaped a process in this step
Reaped == \E p \in DOMAIN procs : procs[p].bg /\ procs[p].st = "exited" /\ procs'[p].st = "reaped"

\* C17: a step in which a background waiter reaps a process leaves the job
\* table and the job counter as they are; the entry of a job whose processes
\* have all been reaped stays in the table, Running, with its pid and command
\* text, in every step but the evaluation of an fg
C17_WaiterLeavesJobTable ==
    [][/\ Reaped => jobs' = jobs /\ jobCounter' = jobCounter
       /\ \A id \in DOMAIN jobs :
             Finished(id) =>
                 \/ \E line \in FgLines : Evaluated(line)
                 \/ /\ id \in DOMAIN jobs'
                    /\ jobs'[id] = jobs[id]
                    /\ ~jobs'[id].Stopped]_vars

\* both processes of the second job, a | a, have been reaped by its waiter;
\* the job is in the table with the pid of its last process and its text
C17_Witness ==
    /\ 2 \in DOMAIN jobs
    /\ Finished(2)
    /\ Cardinality(JobProcs(2)) = 2
    /\ jobs[2].PID = Len(procs)
    /\ jobs[2].Command = <<"a", " ", "|", " ", "a">>
    /\ ~jobs[2].Stopped
    /\ waiters = {}

(***************************************************************************)
(* C18                                                                     *)
(***************************************************************************)

\* the number of lines of a session of detached launches
MaxLiveLines == 2

\* a &, a | a &, jobs and exit
LiveLines ==
    { <<"a", " ", "&">>,
      <<"a", " ", "|", " ", "a", " ", "&">>,
      <<"j", "o", "b", "s">>,
      <<"e", "x", "i", "t">> }

NextLive ==
    \/ \E line \in LiveLines : Len(history) < MaxLiveLines /\ ReadLine(line)
    \/ Background

\* the pids of a session: a line starts two processes at most
LivePids == 1..(2 * MaxLiveLines)

\* what a waiter of the session may have still to wait on
WaiterStates == {<<p>> : p \in LivePids} \cup {<<p, p + 1>> : p \in LivePids}

\* the waiter goroutines are scheduled fairly: a cmd.Wait that can return does
\* return; nothing is assumed about when a process exits or a line is read
SpecLive == Init /\ [][NextLive]_vars /\ \A w \in WaiterStates : WF_vars(Reap(w))

\* the processes of the detached launch whose first process is g
Detached(g) ==
    IF g \in DOMAIN procs /\ procs[g].bg /\ procs[g].grp = g
    THEN {p \in DOMAIN procs : procs[p].grp = g}
    ELSE {}

AllExited(g) == Detached(g) # {} /\ \A p \in Detached(g) : procs[p].st # "running"

AllReaped(g) == Detached(g) # {} /\ \A p \in Detached(g) : procs[p].st = "reaped"

\* the main goroutine has ended: exit, end of input or a panic
Terminated == pc \in {"exited", "eof", "crashed"}

\* a detached launch returns to the read of the main loop with every process
\* it started still running
ReturnsWithoutWaiting ==
    [][\A line \in LiveLines :
          (Evaluated(line) /\ HasSuffix(line, <<"&">>)) =>
              /\ pc' = "read"
              /\ waitq' = <<>>
              /\ Len(procs') > Len(procs)
              /\ \A p \in (Len(procs) + 1)..Len(procs') : procs'[p].st = "running"]_vars

\* C18 as stated: a detached launch returns without waiting, and once every
\* process of the launch has exited every one of them is eventually reaped
C18_Original ==
    /\ ReturnsWithoutWaiting
    /\ \A g \in LivePids : AllExited(g) ~> AllReaped(g)

\* C18, amended: a detached launch returns without waiting, and once every
\* process of the launch has exited, every one of them is eventually reaped by
\* the waiter unless the interpreter ends first
C18_DetachedEventuallyReaped ==
    /\ ReturnsWithoutWaiting
    /\ \A g \in LivePids : AllExited(g) ~> (AllReaped(g) \/ Terminated)

\* a second line was evaluated while the last process of a | a & was running,
\* its first process already reaped by the waiter
C18_Witness ==
    /\ Len(history) = 2
    /\ history[1] = <<"a", " ", "|", " ", "a", " ", "&">>
    /\ pc = "read"
    /\ procs[1].st = "reaped"
    /\ procs[2].st = "running"

(***************************************************************************)
(* C19                                                                     *)
(***************************************************************************)

\* the number of lines of a session of pipelines that fail at a start
MaxStartLines == 2

\* pipelines with a stage n that cannot be started, each with the number of
\* stages before it: a | n | a &, a | n, n | a &, a <e | a | n >o &
StartFailures ==
    { [text |-> <<"a", " ", "|", " ", "n", " ", "|", " ", "a", " ", "&">>, before |-> 1],
      [text |-> <<"a", " ", "|", " ", "n">>, before |-> 1],
      [text |-> <<"n", " ", "|", " ", "a", " ", "&">>, before |-> 0],
      [text |-> <<"a", " ", "<", "e", " ", "|", " ", "a", " ", "|", " ", "n", " ", ">", "o",
                  " ", "&">>,
       before |-> 2] }

\* pipelines whose last stage writes a file that cannot be opened: a | a >r
\* and a | n >r &
OpenFailures ==
    { <<"a", " ", "|", " ", "a", " ", ">", "r">>,
      <<"a", " ", "|", " ", "n", " ", ">", "r", " ", "&">> }

\* and the pipelines that start: a | a & and a | a
StartLines ==
    {u.text : u \in StartFailures} \cup OpenFailures \cup
    { <<"a", " ", "|", " ", "a", " ", "&">>, <<"a", " ", "|", " ", "a">> }

NextStart ==
    \/ \E line \in StartLines : Len(history) < MaxStartLines /\ ReadLine(line)
    \/ WaitStage
    \/ Background

SpecStart == Init /\ [][NextStart]_vars

\* the processes the step has started
Started == (Len(procs) + 1)..Len(procs')

\* the step has started no process and registered no job
NothingLaunched ==
    /\ procs' = procs
    /\ jobs' = jobs
    /\ jobCounter' = jobCounter
    /\ waiters' = waiters

\* C19: when a file of a pipeline cannot be opened no process is started; when
\* stage k cannot be started, the error is returned, exactly the stages before
\* k have been started, in stage order and with their pipes connected, and are
\* running, the output file of the line has been opened, and no job is
\* registered and no waiter created, with & too; a running process ends only
\* by exiting
C19_StartStopsAtFailure ==
    [][/\ \A line \in OpenFailures :
             Evaluated(line) =>
                 /\ lastErr' = Err("open", <<"r">>)
                 /\ pc' = "read"
                 /\ NothingLaunched
       /\ \A u \in StartFailures :
             Evaluated(u.text) =>
                 /\ lastErr' = Err("start", <<"n">>)
                 /\ pc' = "read"
                 /\ waitq' = <<>>
                 /\ Len(procs') = Len(procs) + u.before
                 /\ SubSeq(procs', 1, Len(procs)) = procs
                 /\ \A p \in Started :
                       /\ procs'[p].st = "running"
                       /\ procs'[p].pos = p - Len(procs)
                       /\ procs'[p].stdout = PipeStream(procs'[p].pos)
                 /\ (u.before = 2 => <<"o">> \in DOMAIN files')
                 /\ jobs' = jobs
                 /\ jobCounter' = jobCounter
                 /\ waiters' = waiters
       /\ \A p \in DOMAIN procs :
             (procs[p].st = "running" /\ procs'[p].st # "running") => procs'[p].st = "exited"]_vars

\* a <e | a | n >o & has started its first two stages, which are running; the
\* file o exists, the error of the start is returned and no job is registered
C19_Witness ==
    /\ Len(history) = 1
    /\ Len(procs) = 2
    /\ procs[1].st = "running"
    /\ procs[2].st = "running"
    /\ procs[2].of = 3
    /\ <<"o">> \in DOMAIN files
    /\ lastErr = Err("start", <<"n">>)
    /\ jobs = NoJobs
    /\ waiters = {}

(***************************************************************************)
(* C20                                                                     *)
(***************************************************************************)

\* C20: the job table and the job counter are used under the lock only; the
\* lock has one holder at most, and when a line has been evaluated, with
\* success or with an error, the lock is free and the main goroutine does not
\* wait for it; the table and the counter change in no step of a waiter or a
\* process, which never take the lock
C20_JobTableGuarded ==
    /\ [](/\ ~unguarded
          /\ jobsMutex \in {"free", "main"}
          /\ jobsMutex = "free"
          /\ pc # "blocked")
    /\ [][(jobs' # jobs \/ jobCounter' # jobCounter \/ jobsMutex' # jobsMutex)
             => history' # history]_vars

\* after an fg that returned an error, a & has registered job 1 and jobs has
\* listed it: the lock was free for both
C20_Witness ==
    /\ Len(history) = 3
    /\ history[1] = FgLine
    /\ history[2] = <<"a", " ", "&">>
    /\ out = {Line("jobs", 1, 0, "Running", <<"a">>)}
    /\ jobCounter = 2
    /\ jobsMutex = "free"
    /\ ~unguarded

====
